---- MODULE Spec2Model ----
(***************************************************************************)
(* Model of import_planilhas_mysql.py: the table-name sanitizer, the       *)
(* tolerant CSV/workbook reader, the partitioning of a sheet by its        *)
(* "codigo" column and the run of main() against the store.                *)
(*                                                                         *)
(* Text is a sequence of one-character strings.  A missing cell (pandas    *)
(* NaN) is the value NA.                                                   *)
(***************************************************************************)
EXTENDS Integers, Sequences, FiniteSets

VARIABLES
    raw, once, twice, spc,          \* sanitizer: input, first and second pass, position
    csvFile, csvOut, cpc,           \* CSV reader: file lines, result, position
    frame, parts, emitted, ppc,     \* partitioner: sheet, pending groups, emitted groups, position
    keepNA,                         \* pandas build: astype(str) keeps NaN (>= 3.0) or yields 'nan'
    folder, probe, files, fi,       \* run: directory listing, probe outcome, accepted files, file index
    dfs, units, writes, reads,      \* run: sheets of the current file, pending write units, logs
    disposed, pc                    \* run: engine released, position in main()

vars == <<raw, once, twice, spc, csvFile, csvOut, cpc, frame, parts, emitted, ppc,
          keepNA, folder, probe, files, fi, dfs, units, writes, reads, disposed, pc>>

sanVars  == <<raw, once, twice, spc>>
csvVars  == <<csvFile, csvOut, cpc>>
partVars == <<frame, parts, emitted, ppc>>
runVars  == <<folder, probe, files, fi, dfs, units, writes, reads, disposed, pc>>

-----------------------------------------------------------------------------
(* Bounds of the model *)

\* longest free-form prefix of a sanitizer input
MaxHead == 3
\* most data lines of a CSV file
MaxLines == 3
\* most rows of a sheet handed to the partitioner
MaxRows == 3
\* most entries of the source directory
MaxFiles == 2

-----------------------------------------------------------------------------
(* Text *)

\* ASCII characters in code-point order (the ones the model uses)
OrderedChars ==
    << "\t", "\n", " ", "!", "-", ".",
       "0", "1", "2", "3", "4", "5", "6", "7", "8", "9",
       "A", "B", "C", "D", "E", "F", "G", "H", "I", "J", "K", "L", "M",
       "N", "O", "P", "Q", "R", "S", "T", "U", "V", "W", "X", "Y", "Z",
       "_",
       "a", "b", "c", "d", "e", "f", "g", "h", "i", "j", "k", "l", "m",
       "n", "o", "p", "q", "r", "s", "t", "u", "v", "w", "x", "y", "z" >>

Code(c) == CHOOSE i \in 1..Len(OrderedChars) : OrderedChars[i] = c

Whitespace == {"\t", "\n", " "}
Digits     == {OrderedChars[i] : i \in Code("0")..Code("9")}
UpperCase  == {OrderedChars[i] : i \in Code("A")..Code("Z")}
LowerCase  == {OrderedChars[i] : i \in Code("a")..Code("z")}

\* str.lower() on one character
LowerChar(c) == IF c \in UpperCase THEN OrderedChars[Code(c) - Code("A") + Code("a")] ELSE c

\* str.lower()
StrLower(s) == [i \in 1..Len(s) |-> LowerChar(s[i])]

\* str.strip(): drops leading and trailing whitespace
StrStrip(s) ==
    LET keep == {i \in 1..Len(s) : s[i] \notin Whitespace}
    IN  IF keep = {} THEN <<>>
        ELSE LET lo == CHOOSE i \in keep : \A j \in keep : i <= j
                 hi == CHOOSE i \in keep : \A j \in keep : j <= i
             IN  SubSeq(s, lo, hi)

\* s[:n]
Prefix(s, n) == SubSeq(s, 1, IF Len(s) < n THEN Len(s) ELSE n)

\* Python's str comparison: lexicographic by code point
StrLess(s, t) ==
    \E k \in 0..Len(s) :
        /\ k <= Len(t)
        /\ \A i \in 1..k : s[i] = t[i]
        /\ \/ k = Len(s) /\ k < Len(t)
           \/ k < Len(s) /\ k < Len(t) /\ Code(s[k+1]) < Code(t[k+1])

-----------------------------------------------------------------------------
(* sanitize_table_name *)

\* MySQL's limit on an identifier
NameLimit == 64

ValidChars == LowerCase \cup Digits \cup {"_"}

\* re.sub(r'[^a-z0-9_]', '_', name)
ReplaceInvalid(s) == [i \in 1..Len(s) |-> IF s[i] \in ValidChars THEN s[i] ELSE "_"]

\* re.match(r'^[0-9]', name)
StartsWithDigit(s) == Len(s) > 0 /\ s[1] \in Digits

\* a variant that tests for the leading digit on the text as given, before
\* it is trimmed and cleaned
sanitize_digit_test_first(name) ==
    LET n == ReplaceInvalid(StrLower(StrStrip(name)))
    IN  Prefix(IF StartsWithDigit(name) THEN <<"t", "_">> \o n ELSE n, NameLimit)

sanitize_table_name(name) ==
    LET n == ReplaceInvalid(StrLower(StrStrip(name)))
    IN  Prefix(IF StartsWithDigit(n) THEN <<"t", "_">> \o n ELSE n, NameLimit)

\* the TableName invariant of the data model
IsTableName(s) ==
    /\ Len(s) >= 1
    /\ Len(s) <= NameLimit
    /\ \A i \in 1..Len(s) : s[i] \in ValidChars
    /\ ~StartsWithDigit(s)

(* Inputs of the sanitizer: a free-form head, a long run of one character  *)
(* that takes the text to the length limit, and a short tail.              *)
SanAlphabet == {"a", "B", "7", " ", "!", "_"}

SeqsUpTo(S, n) == UNION {[1..k -> S] : k \in 0..n}

Run(c, n) == [i \in 1..n |-> c]

PadLens == {0} \cup ((NameLimit - 3)..(NameLimit + 1))

SanInputs ==
    {h \o Run(c, n) \o t :
        h \in SeqsUpTo(SanAlphabet, MaxHead),
        c \in {"a", "7"},
        n \in PadLens,
        t \in SeqsUpTo({" ", "x"}, 1)}

-----------------------------------------------------------------------------
(* Data frames *)

\* a missing cell (NaN); no text equals it, a text being made of single characters
NA == <<"NaN">>

T_codigo     == <<"c", "o", "d", "i", "g", "o">>
T_sem_codigo == <<"s", "e", "m", "_", "c", "o", "d", "i", "g", "o">>
T_nan        == <<"n", "a", "n">>
T_csv        == <<"c", "s", "v">>

\* A frame is [cols, rows]; a row is [idx, cells]: its index label and one
\* cell per column.
EmptyFrame == [cols |-> <<>>, rows |-> <<>>]

\* a frame as read: rows labelled 0, 1, ... (a RangeIndex)
Frame(cols, cellRows) ==
    [cols |-> cols,
     rows |-> [r \in 1..Len(cellRows) |-> [idx |-> r - 1, cells |-> cellRows[r]]]]

\* df.empty
FrameEmpty(df) == Len(df.cols) = 0 \/ Len(df.rows) = 0

\* the elements of s at the increasing positions in P
RECURSIVE Pick(_, _)
Pick(s, P) ==
    IF P = {} THEN <<>>
    ELSE LET i == CHOOSE x \in P : \A y \in P : x <= y
         IN  <<s[i]>> \o Pick(s, P \ {i})

\* df.dropna(axis=1, how='all'): drops the columns with no value in any row
DropEmptyColumns(df) ==
    LET keep == {c \in 1..Len(df.cols) :
                    \E r \in 1..Len(df.rows) : df.rows[r].cells[c] # NA}
    IN  [cols |-> Pick(df.cols, keep),
         rows |-> [r \in 1..Len(df.rows) |->
                     [idx |-> df.rows[r].idx, cells |-> Pick(df.rows[r].cells, keep)]]]

\* [c for c in df.columns if str(c).strip().lower() == 'codigo']
CodigoCols(df) == {c \in 1..Len(df.cols) : StrLower(StrStrip(df.cols[c])) = T_codigo}

\* codigo_cols[0]; a column is addressed by its label, so the first column
\* bearing the chosen label
CodigoCol(df) == CHOOSE c \in CodigoCols(df) : \A d \in CodigoCols(df) : c <= d

\* Series.astype(str): text stays; NaN stays missing when the build keeps it
\* (pandas >= 3.0) and becomes the text 'nan' otherwise
AsTypeStr(v, keep) == IF v = NA THEN (IF keep THEN NA ELSE T_nan) ELSE v

\* Series.fillna('sem_codigo')
FillNa(v) == IF v = NA THEN T_sem_codigo ELSE v

\* a variant that leaves the discriminant column as read
NormalizeCodigoNoop(v, keep) == v

\* .astype(str).fillna('sem_codigo') on one cell
NormalizeCodigo(v, keep) == FillNa(AsTypeStr(v, keep))

\* df[codigo_col] = df[codigo_col].astype(str).fillna('sem_codigo')
SetCodigo(df, c, keep) ==
    [cols |-> df.cols,
     rows |-> [r \in 1..Len(df.rows) |->
                 [idx   |-> df.rows[r].idx,
                  cells |-> [df.rows[r].cells EXCEPT ![c] = NormalizeCodigo(@, keep)]]]]

\* the texts of S in ascending order
RECURSIVE Ascending(_)
Ascending(S) ==
    IF S = {} THEN <<>>
    ELSE LET m == CHOOSE x \in S : \A y \in S \ {x} : StrLess(x, y)
         IN  <<m>> \o Ascending(S \ {m})

\* the distinct values of s in order of first occurrence
RECURSIVE FirstSeen(_)
FirstSeen(s) ==
    IF s = <<>> THEN <<>>
    ELSE LET init == FirstSeen(SubSeq(s, 1, Len(s) - 1))
             last == s[Len(s)]
         IN  IF \E i \in 1..Len(init) : init[i] = last THEN init ELSE Append(init, last)

\* the key column of a frame, NaN keys left out (groupby's dropna=True)
KeyColumn(df, c) ==
    LET P == {r \in 1..Len(df.rows) : df.rows[r].cells[c] # NA}
    IN  Pick([r \in 1..Len(df.rows) |-> df.rows[r].cells[c]], P)

\* a variant that yields the group keys in order of first occurrence
\* (groupby(sort=False))
GroupKeysUnsorted(df, c) == FirstSeen(KeyColumn(df, c))

\* the group keys of df.groupby(col): sort=True, so ascending
GroupKeys(df, c) ==
    LET col == KeyColumn(df, c)
    IN  Ascending({col[i] : i \in 1..Len(col)})

\* df.groupby(col): one (key, sub-frame) per key, rows in their original order
GroupBy(df, c) ==
    LET keys == GroupKeys(df, c)
    IN  [k \in 1..Len(keys) |->
            [key |-> keys[k],
             df  |-> [cols |-> df.cols,
                      rows |-> Pick(df.rows, {r \in 1..Len(df.rows) :
                                                 df.rows[r].cells[c] = keys[k]})]]]

\* the write units of one sheet, main() lines 168-192: nothing for an empty
\* sheet, one unit per codigo value, or one unit for the whole sheet
SheetUnits(base, sheet, df0, keep) ==
    IF FrameEmpty(df0) THEN <<>>
    ELSE LET df == DropEmptyColumns(df0)
         IN  IF CodigoCols(df) # {}
             THEN LET c  == CodigoCol(df)
                      g  == GroupBy(SetCodigo(df, c, keep), c)
                  IN  [k \in 1..Len(g) |->
                         [table |-> sanitize_table_name(base \o <<"_">> \o sheet \o <<"_">> \o g[k].key),
                          key   |-> g[k].key,
                          df    |-> g[k].df]]
             ELSE << [table |-> sanitize_table_name(base \o <<"_">> \o sheet),
                      key   |-> NA,
                      df    |-> df] >>

-----------------------------------------------------------------------------
(* read_file_to_dfs, the CSV branch *)

\* A CSV file is [readable, lines]; a line is [cells, badenc]: its fields and
\* whether it holds bytes that are not UTF-8.
CsvLine(cells) == [cells |-> cells, badenc |-> FALSE]

\* read_csv's default na_values, the ones the model uses: an empty field
\* and the text nan
NaTexts == {<<>>, T_nan}

ParseCell(t) == IF t \in NaTexts THEN NA ELSE t

\* blank lines are passed over (skip_blank_lines)
IsBlank(l) == l.cells = <<>>

\* a data line as a row of ncols cells, short lines filled with NaN
ParseLine(l, ncols) ==
    [c \in 1..ncols |-> IF c <= Len(l.cells) THEN ParseCell(l.cells[c]) ELSE NA]

\* pd.read_csv(path, dtype=str, sep=None, engine='python', on_bad_lines='skip')
\* on lines that decode: the first non-blank line is the header, a later line
\* with more fields than the header is dropped (a bad line), a line with
\* fewer is filled with NaN
ParseCsv(lines) ==
    LET content == {i \in 1..Len(lines) : ~IsBlank(lines[i])}
        h       == CHOOSE i \in content : \A j \in content : i <= j
        ncols   == Len(lines[h].cells)
        kept    == Pick(lines, {i \in content : i > h /\ Len(lines[i].cells) <= ncols})
    IN  [cols |-> lines[h].cells,
         rows |-> [r \in 1..Len(kept) |-> [idx |-> r - 1, cells |-> ParseLine(kept[r], ncols)]]]

\* skipped = total_lines - read_lines - 1
SkippedCount(total_lines, read_lines) == total_lines - read_lines - 1

\* the CSV branch: {} when the file cannot be opened, holds no content or
\* does not decode (the except clause); otherwise {'csv': df}, the skipped
\* count being printed when positive
ReadCsv(f) ==
    IF \/ ~f.readable
       \/ \A i \in 1..Len(f.lines) : IsBlank(f.lines[i])
       \/ \E i \in 1..Len(f.lines) : f.lines[i].badenc
    THEN [ok |-> FALSE, dfs |-> <<>>, skipped |-> 0, printed |-> FALSE]
    ELSE LET df      == ParseCsv(f.lines)
             skipped == SkippedCount(Len(f.lines), Len(df.rows))
         IN  [ok |-> TRUE, dfs |-> << [sheet |-> T_csv, parses |-> TRUE, df |-> df] >>,
              skipped |-> skipped, printed |-> skipped > 0]

-----------------------------------------------------------------------------
(* Placeholders: the parts of the state a specification does not use *)

IdleSan  == raw = <<>> /\ once = <<>> /\ twice = <<>> /\ spc = "idle"
IdleCsv  == csvFile = <<>> /\ csvOut = [ok |-> FALSE] /\ cpc = "idle"
IdlePart == frame = [cols |-> <<>>, rows |-> <<>>] /\ parts = <<>> /\ emitted = <<>> /\ ppc = "idle"
IdleRun  ==
    /\ folder = <<>> /\ probe = "none" /\ files = <<>> /\ fi = 0
    /\ dfs = <<>> /\ units = <<>> /\ writes = <<>> /\ reads = <<>>
    /\ disposed = FALSE /\ pc = "idle"

-----------------------------------------------------------------------------
(* Specification of the sanitizer: one text, sanitized, then sanitized again *)

InitSan ==
    /\ raw \in SanInputs
    /\ once = <<>> /\ twice = <<>> /\ spc = "raw"
    /\ IdleCsv /\ IdlePart /\ IdleRun
    /\ keepNA = FALSE

Sanitize ==
    /\ spc = "raw"
    /\ once' = sanitize_table_name(raw)
    /\ spc' = "once"
    /\ UNCHANGED <<raw, twice, csvVars, partVars, runVars, keepNA>>

SanitizeAgain ==
    /\ spc = "once"
    /\ twice' = sanitize_table_name(once)
    /\ spc' = "twice"
    /\ UNCHANGED <<raw, once, csvVars, partVars, runVars, keepNA>>

NextSan == Sanitize \/ SanitizeAgain

SpecSan == InitSan /\ [][NextSan]_vars

\* C8: every text sanitizes to a table name: non-empty, at most 64
\* characters of [a-z0-9_], no leading digit.
C8_TableNameTotal == spc \in {"once", "twice"} => IsTableName(once)

\* C9: sanitizing a sanitized name changes nothing.
C9_Idempotent == spc = "twice" => twice = once

\* C9 witness: a leading digit got the t_ prefix, the result was cut to 64
\* characters, and the second pass has run.
C9_Witness ==
    /\ spc = "twice"
    /\ StartsWithDigit(StrStrip(raw))
    /\ Len(StrStrip(raw)) + 2 > NameLimit
    /\ Len(once) = NameLimit
    /\ once[1] = "t"

-----------------------------------------------------------------------------
(* Specification of the CSV reader: one file, read once *)

T_A == <<"A">>
T_B == <<"B">>
T_v == <<"v">>
T_1 == <<"1">>

CsvHeader == CsvLine(<<T_codigo, T_v>>)

\* data lines: well-formed, too many fields, too few fields, blank, not UTF-8
CsvDataLines ==
    { CsvLine(<<T_A, T_1>>),
      CsvLine(<<T_A, T_1, T_B, T_1>>),
      CsvLine(<<T_B>>),
      CsvLine(<<>>),
      [cells |-> <<T_B, T_1>>, badenc |-> TRUE] }

\* the files: a header and up to MaxLines data lines (the first of them not
\* longer than the header: pandas would take its surplus fields for index
\* columns), an empty file, and a file that cannot be opened
CsvFiles ==
    {[readable |-> TRUE, lines |-> <<CsvHeader>> \o d] :
        d \in {x \in SeqsUpTo(CsvDataLines, MaxLines) :
                  x = <<>> \/ Len(x[1].cells) <= Len(CsvHeader.cells)}}
    \cup {[readable |-> TRUE, lines |-> <<>>], [readable |-> FALSE, lines |-> <<CsvHeader>>]}

InitCsv ==
    /\ csvFile \in CsvFiles
    /\ csvOut = [ok |-> FALSE] /\ cpc = "open"
    /\ IdleSan /\ IdlePart /\ IdleRun
    /\ keepNA = FALSE

ReadCsvFile ==
    /\ cpc = "open"
    /\ csvOut' = ReadCsv(csvFile)
    /\ cpc' = "done"
    /\ UNCHANGED <<csvFile, sanVars, partVars, runVars, keepNA>>

NextCsv == ReadCsvFile

SpecCsv == InitCsv /\ [][NextCsv]_vars

\* a line with the wrong number of fields or with bytes that do not decode
Malformed(l, ncols) == l.badenc \/ Len(l.cells) # ncols

MalformedCount(f) ==
    Cardinality({i \in 2..Len(f.lines) : Malformed(f.lines[i], Len(f.lines[1].cells))})

\* C10: a CSV file of N lines, the first its header and K of the others
\* malformed (none blank), is read as N - 1 - K rows, with a skipped count
\* of K.
C10_SkippedAccounting ==
    (/\ cpc = "done"
     /\ csvFile.readable
     /\ Len(csvFile.lines) >= 1
     /\ \A i \in 1..Len(csvFile.lines) : ~IsBlank(csvFile.lines[i]))
    => /\ csvOut.ok
       /\ Len(csvOut.dfs[1].df.rows) = Len(csvFile.lines) - 1 - MalformedCount(csvFile)
       /\ csvOut.skipped = MalformedCount(csvFile)

-----------------------------------------------------------------------------
(* Specification of the partitioner: one sheet, split and emitted group by group *)

T_a == <<"a">>
T_b == <<"b">>
T_f == <<"f">>

\* the values of a codigo cell, and of any other cell
PartCells  == {T_b, T_a, NA}
OtherCells == {T_1, NA}

\* column layouts, each with the values its cells take
PartLayouts ==
    { [cols |-> <<T_codigo, T_v>>, vals |-> <<PartCells, OtherCells>>],
      [cols |-> <<T_v, <<" ", "C", "o", "d", "i", "g", "o", " ">> >>,
       vals |-> <<OtherCells, PartCells>>],
      [cols |-> <<<<"C", "O", "D", "I", "G", "O">>, T_codigo>>,
       vals |-> <<PartCells, OtherCells>>],
      [cols |-> <<T_v, <<"w">> >>, vals |-> <<OtherCells, OtherCells>>] }

RowsOf(l) ==
    {x \in SeqsUpTo([1..2 -> PartCells \cup OtherCells], MaxRows) :
        \A r \in 1..Len(x) : \A c \in 1..2 : x[r][c] \in l.vals[c]}

PartFrames == UNION {{Frame(l.cols, rs) : rs \in RowsOf(l)} : l \in PartLayouts}

InitPart ==
    /\ frame \in PartFrames
    /\ parts = <<>> /\ emitted = <<>> /\ ppc = "sheet"
    /\ keepNA \in BOOLEAN
    /\ IdleSan /\ IdleCsv /\ IdleRun

\* lines 168-183: prune, find the codigo column, normalise it, group
PartitionSheet ==
    /\ ppc = "sheet"
    /\ parts' = SheetUnits(T_f, T_csv, frame, keepNA)
    /\ ppc' = "emit"
    /\ UNCHANGED <<frame, emitted, keepNA, sanVars, csvVars, runVars>>

\* lines 183-186 and 190-192: the next group goes to the writer
EmitPartition ==
    /\ ppc = "emit" /\ parts # <<>>
    /\ emitted' = Append(emitted, Head(parts))
    /\ parts' = Tail(parts)
    /\ UNCHANGED <<frame, ppc, keepNA, sanVars, csvVars, runVars>>

FinishSheet ==
    /\ ppc = "emit" /\ parts = <<>>
    /\ ppc' = "done"
    /\ UNCHANGED <<frame, parts, emitted, keepNA, sanVars, csvVars, runVars>>

NextPart == PartitionSheet \/ EmitPartition \/ FinishSheet

SpecPart == InitPart /\ [][NextPart]_vars

Pruned == DropEmptyColumns(frame)

\* the sheet is not empty and, once pruned, has a codigo column
HasCodigo == ~FrameEmpty(frame) /\ CodigoCols(Pruned) # {}

EmittedKeys == [k \in 1..Len(emitted) |-> emitted[k].key]

RECURSIVE EmittedRowsFrom(_)
EmittedRowsFrom(k) ==
    IF k > Len(emitted) THEN <<>> ELSE emitted[k].df.rows \o EmittedRowsFrom(k + 1)

\* the emitted partitions, concatenated in emission order
EmittedRows == EmittedRowsFrom(1)

\* rows of every emitted partition are in their original relative order and
\* carry the partition's key
StableGroups ==
    \A k \in 1..Len(emitted) :
        LET rs == emitted[k].df.rows
        IN  /\ \A i, j \in 1..Len(rs) : i < j => rs[i].idx < rs[j].idx
            /\ \A i \in 1..Len(rs) : rs[i].cells[CodigoCol(Pruned)] = emitted[k].key

\* C5 as stated: partitions are emitted in the order in which each distinct
\* normalised codigo value first occurs in the rows, rows of a partition in
\* their original order.
C5_FirstSeenOrder ==
    (ppc = "done" /\ HasCodigo) =>
        /\ EmittedKeys = FirstSeen(KeyColumn(SetCodigo(Pruned, CodigoCol(Pruned), keepNA),
                                             CodigoCol(Pruned)))
        /\ StableGroups

\* C5 amended: partitions are emitted in ascending order of the distinct
\* normalised codigo values (one partition per value), rows of a partition
\* in their original order.
C5_AscendingOrder ==
    (ppc = "done" /\ HasCodigo) =>
        /\ \A j, k \in 1..Len(emitted) : j < k => StrLess(emitted[j].key, emitted[k].key)
        /\ {emitted[k].key : k \in 1..Len(emitted)}
             = {NormalizeCodigo(Pruned.rows[r].cells[CodigoCol(Pruned)], keepNA) :
                    r \in 1..Len(Pruned.rows)}
        /\ StableGroups

\* C5 witness: three rows whose values first occur in descending order,
\* emitted as two partitions, one of them of two rows.
C5_Witness ==
    /\ ppc = "done" /\ HasCodigo
    /\ Len(emitted) = 2
    /\ Len(frame.rows) = 3
    /\ StrLess(emitted[1].key, emitted[2].key)
    /\ Pruned.rows[1].cells[CodigoCol(Pruned)] = emitted[2].key
    /\ Len(emitted[2].df.rows) = 2

\* C6: the rows whose codigo cell is missing all go to one partition, whose
\* key is sem_codigo and whose table is named from {base}_{sheet}_sem_codigo.
C6_SentinelKey ==
    (ppc = "done" /\ HasCodigo) =>
        \A r \in 1..Len(Pruned.rows) :
            Pruned.rows[r].cells[CodigoCol(Pruned)] = NA =>
                \E k \in 1..Len(emitted) :
                    /\ emitted[k].key = T_sem_codigo
                    /\ emitted[k].table
                         = sanitize_table_name(T_f \o <<"_">> \o T_csv \o <<"_">> \o T_sem_codigo)
                    /\ \E i \in 1..Len(emitted[k].df.rows) :
                           emitted[k].df.rows[i].idx = Pruned.rows[r].idx

\* C7: the emitted partitions, concatenated, are the rows of the pruned
\* sheet: every row once (rows with a missing codigo included), cells
\* unchanged but for the codigo cell, which holds its normalised text, and
\* every partition has all the pruned columns, codigo among them.
C7_Lossless ==
    (ppc = "done" /\ HasCodigo) =>
        LET c == CodigoCol(Pruned)
        IN  /\ Len(EmittedRows) = Len(Pruned.rows)
            /\ \A r \in 1..Len(Pruned.rows) :
                  \E i \in 1..Len(EmittedRows) :
                      /\ EmittedRows[i].idx = Pruned.rows[r].idx
                      /\ \A d \in 1..Len(Pruned.cols) :
                            \/ EmittedRows[i].cells[d] = Pruned.rows[r].cells[d]
                            \/ d = c /\ Pruned.rows[r].cells[d] = NA
                                     /\ EmittedRows[i].cells[d] # NA
            /\ \A k \in 1..Len(emitted) : emitted[k].df.cols = Pruned.cols

\* C7 witness: a sheet with a row whose codigo is missing and a row whose
\* codigo is given, emitted as two partitions.
C7_Witness ==
    /\ ppc = "done" /\ HasCodigo
    /\ Len(emitted) >= 2
    /\ \E r \in 1..Len(Pruned.rows) : Pruned.rows[r].cells[CodigoCol(Pruned)] = NA
    /\ Len(EmittedRows) = Len(frame.rows)

-----------------------------------------------------------------------------
(* The run of main() *)

\* os.path.splitext: the extension starts at the last dot, a leading dot
\* starting none
SplitExt(name) ==
    LET dots == {i \in 2..Len(name) : name[i] = "."}
    IN  IF dots = {} THEN [base |-> name, ext |-> <<>>]
        ELSE LET d == CHOOSE i \in dots : \A j \in dots : j <= i
             IN  [base |-> SubSeq(name, 1, d - 1), ext |-> SubSeq(name, d, Len(name))]

E_xlsx == <<".", "x", "l", "s", "x">>
E_xls  == <<".", "x", "l", "s">>
E_csv  == <<".", "c", "s", "v">>

\* os.path.splitext(f)[1].lower() in ('.xlsx', '.xls', '.csv')
Recognized(name) == StrLower(SplitExt(name).ext) \in {E_xlsx, E_xls, E_csv}

\* A directory entry: its name, whether it is a regular file, and what a
\* read finds: for a workbook whether it opens and its sheets (each parsing
\* or not), for a CSV file its lines.
Entry(name, isfile, openable, sheets, csv) ==
    [name |-> name, isfile |-> isfile, openable |-> openable, sheets |-> sheets, csv |-> csv]

NoCsv == [readable |-> FALSE, lines |-> <<>>]

Sheet(name, parses, df) == [sheet |-> name, parses |-> parses, df |-> df]

\* orders.csv: codigo,v / A,1 / B,1 / A,1
F_orders ==
    Entry(<<"o", "r", "d", "e", "r", "s", ".", "c", "s", "v">>, TRUE, FALSE, <<>>,
          [readable |-> TRUE,
           lines |-> <<CsvHeader, CsvLine(<<T_A, T_1>>), CsvLine(<<T_B, T_1>>),
                       CsvLine(<<T_A, T_1>>)>>])

\* report.xlsx: one sheet, no codigo column
F_report ==
    Entry(<<"r", "e", "p", "o", "r", "t", ".", "x", "l", "s", "x">>, TRUE, TRUE,
          <<Sheet(<<"S", "h", "e", "e", "t", "1">>, TRUE, Frame(<<T_v>>, <<<<T_1>>, <<T_1>>>>))>>, NoCsv)

\* bad.XLSX: a workbook that does not open
F_corrupt == Entry(<<"b", "a", "d", ".", "X", "L", "S", "X">>, TRUE, FALSE, <<>>, NoCsv)

\* bad.csv: a line that is not UTF-8
F_badcsv ==
    Entry(<<"b", "a", "d", ".", "c", "s", "v">>, TRUE, FALSE, <<>>,
          [readable |-> TRUE, lines |-> <<CsvHeader, [cells |-> <<T_B, T_1>>, badenc |-> TRUE]>>])

\* notes.txt: not a recognised extension
F_notes == Entry(<<"n", "o", "t", "e", "s", ".", "t", "x", "t">>, TRUE, FALSE, <<>>, NoCsv)

\* multi.xls: a sheet that fails to parse, an empty sheet, and a sheet with a
\* codigo column in which one value is missing
F_multi ==
    Entry(<<"m", "u", "l", "t", "i", ".", "x", "l", "s">>, TRUE, TRUE,
          <<Sheet(<<"S", "1">>, FALSE, EmptyFrame),
            Sheet(<<"S", "2">>, TRUE, Frame(<<T_v>>, <<>>)),
            Sheet(<<"S", "3">>, TRUE, Frame(<<T_codigo, T_v>>, <<<<T_b, T_1>>, <<NA, T_1>>>>))>>,
          NoCsv)

\* dir.csv: a directory, not a file
F_dir == Entry(<<"d", "i", "r", ".", "c", "s", "v">>, FALSE, FALSE, <<>>, NoCsv)

Catalogue == {F_orders, F_report, F_corrupt, F_badcsv, F_notes, F_multi, F_dir}

\* the listings: up to MaxFiles distinct entries, in any order
Listings ==
    {l \in SeqsUpTo(Catalogue, MaxFiles) : \A i, j \in 1..Len(l) : i # j => l[i] # l[j]}

\* lines 152-154: the regular files with a recognised extension, in listing order
AcceptedFiles(entries) ==
    Pick(entries, {i \in 1..Len(entries) : entries[i].isfile /\ Recognized(entries[i].name)})

\* read_file_to_dfs: the sheets read, or the exception that leaves the function
read_file_to_dfs(f) ==
    LET ext == StrLower(SplitExt(f.name).ext)
    IN  IF ext \in {E_xls, E_xlsx}
        THEN IF ~f.openable
             THEN [raised |-> TRUE, dfs |-> <<>>]
             ELSE [raised |-> FALSE,
                   dfs |-> Pick(f.sheets, {i \in 1..Len(f.sheets) : f.sheets[i].parses})]
        ELSE IF ext = E_csv
        THEN [raised |-> FALSE, dfs |-> ReadCsv(f.csv).dfs]
        ELSE [raised |-> FALSE, dfs |-> <<>>]

\* a variant that lets the store's exception leave the function
write_df_to_table_reraise(unit, stored) ==
    [entry  |-> [table |-> unit.table, rows |-> Len(unit.df.rows), ok |-> stored],
     raised |-> ~stored]

\* write_df_to_table: the attempt, and whether an exception leaves the function
write_df_to_table(unit, stored) ==
    [entry  |-> [table |-> unit.table, rows |-> Len(unit.df.rows), ok |-> stored],
     raised |-> FALSE]

\* the state after create_engine, line 145
Init ==
    /\ folder \in [exists : BOOLEAN, entries : Listings]
    /\ folder.exists \/ folder.entries = <<>>
    /\ keepNA \in BOOLEAN
    /\ probe = "none" /\ files = <<>> /\ fi = 0
    /\ dfs = <<>> /\ units = <<>> /\ writes = <<>> /\ reads = <<>>
    /\ disposed = FALSE /\ pc = "probe"
    /\ IdleSan /\ IdleCsv /\ IdlePart

Quiet == UNCHANGED <<sanVars, csvVars, partVars, keepNA, folder>>

\* a variant in which main() goes on after a failed probe
ProbeFailsGoesOn ==
    /\ pc = "probe"
    /\ probe' = "failed"
    /\ pc' = "list"
    /\ UNCHANGED <<files, fi, dfs, units, writes, reads, disposed>>
    /\ Quiet

\* ensure_db_connection returns False; main() returns, line 149
ProbeFails ==
    /\ pc = "probe"
    /\ probe' = "failed"
    /\ pc' = "aborted"
    /\ UNCHANGED <<files, fi, dfs, units, writes, reads, disposed>>
    /\ Quiet

\* ensure_db_connection returns True
ProbeSucceeds ==
    /\ pc = "probe"
    /\ probe' = "ok"
    /\ pc' = "list"
    /\ UNCHANGED <<files, fi, dfs, units, writes, reads, disposed>>
    /\ Quiet

\* lines 152-158: os.listdir raises on a missing folder; an empty list of
\* accepted files ends the run
ListFiles ==
    /\ pc = "list"
    /\ IF ~folder.exists
       THEN pc' = "crashed" /\ UNCHANGED <<files, fi>>
       ELSE /\ files' = AcceptedFiles(folder.entries)
            /\ IF files' = <<>>
               THEN pc' = "aborted" /\ UNCHANGED fi
               ELSE pc' = "file" /\ fi' = 1
    /\ UNCHANGED <<probe, dfs, units, writes, reads, disposed>>
    /\ Quiet

\* lines 161-164: the next file is read; an exception of read_file_to_dfs
\* leaves main()
ReadFile ==
    /\ pc = "file"
    /\ LET r == read_file_to_dfs(files[fi])
       IN  /\ reads' = Append(reads, [file |-> fi, ok |-> ~r.raised])
           /\ IF r.raised
              THEN pc' = "crashed" /\ UNCHANGED dfs
              ELSE pc' = "sheet" /\ dfs' = r.dfs
    /\ UNCHANGED <<probe, files, fi, units, writes, disposed>>
    /\ Quiet

\* lines 167-183: the next sheet of the file is split into its write units
TakeSheet ==
    /\ pc = "sheet" /\ dfs # <<>>
    /\ units' = SheetUnits(SplitExt(files[fi].name).base, Head(dfs).sheet, Head(dfs).df, keepNA)
    /\ dfs' = Tail(dfs)
    /\ pc' = "write"
    /\ UNCHANGED <<probe, files, fi, writes, reads, disposed>>
    /\ Quiet

\* the file has no sheet left: on to the next file, or out of the loop
FileDone ==
    /\ pc = "sheet" /\ dfs = <<>>
    /\ IF fi < Len(files)
       THEN fi' = fi + 1 /\ pc' = "file"
       ELSE pc' = "dispose" /\ UNCHANGED fi
    /\ UNCHANGED <<probe, files, dfs, units, writes, reads, disposed>>
    /\ Quiet

\* lines 186, 192: one unit goes to the writer; the store takes it or fails
WriteUnit ==
    /\ pc = "write" /\ units # <<>>
    /\ \E stored \in BOOLEAN :
          LET w == write_df_to_table(Head(units), stored)
          IN  /\ writes' = Append(writes, w.entry)
              /\ IF w.raised
                 THEN pc' = "crashed" /\ UNCHANGED units
                 ELSE pc' = "write" /\ units' = Tail(units)
    /\ UNCHANGED <<probe, files, fi, dfs, reads, disposed>>
    /\ Quiet

\* the sheet has no unit left
SheetDone ==
    /\ pc = "write" /\ units = <<>>
    /\ pc' = "sheet"
    /\ UNCHANGED <<probe, files, fi, dfs, units, writes, reads, disposed>>
    /\ Quiet

\* lines 195-196: engine.dispose()
Dispose ==
    /\ pc = "dispose"
    /\ disposed' = TRUE
    /\ pc' = "done"
    /\ UNCHANGED <<probe, files, fi, dfs, units, writes, reads>>
    /\ Quiet

Next ==
    \/ ProbeSucceeds \/ ProbeFails \/ ListFiles \/ ReadFile \/ TakeSheet
    \/ FileDone \/ WriteUnit \/ SheetDone \/ Dispose

Spec == Init /\ [][Next]_vars

Ended == pc \in {"done", "aborted", "crashed"}

Tables(us) == [k \in 1..Len(us) |-> us[k].table]

RECURSIVE TablesOfSheets(_, _)
TablesOfSheets(base, sheets) ==
    IF sheets = <<>> THEN <<>>
    ELSE Tables(SheetUnits(base, Head(sheets).sheet, Head(sheets).df, keepNA))
            \o TablesOfSheets(base, Tail(sheets))

\* the tables of every write unit of files i, i+1, ..., up to the first file
\* whose read raises
RECURSIVE TablesFrom(_)
TablesFrom(i) ==
    IF i > Len(files) THEN <<>>
    ELSE LET r == read_file_to_dfs(files[i])
         IN  IF r.raised THEN <<>>
             ELSE TablesOfSheets(SplitExt(files[i].name).base, r.dfs) \o TablesFrom(i + 1)

\* no regular file of the directory has a recognised extension
NoRecognizedFile ==
    \A i \in 1..Len(folder.entries) :
        \/ ~folder.entries[i].isfile
        \/ StrLower(SplitExt(folder.entries[i].name).ext) \notin {E_xlsx, E_xls, E_csv}

\* C1: a file whose read fails at the open stage is skipped: every accepted
\* file is read and the run reaches its normal end.
C1_ReadFailureIsolated ==
    (Ended /\ files # <<>>) => (pc = "done" /\ Len(reads) = Len(files))

\* C2: a failed write stops nothing: whatever the store answers, the writer
\* is called, in order, for every write unit of every file the run reads
\* (the units before the first file whose read raises), and only a read
\* ends the run early.
C2_WriteFailureIsolated ==
    /\ Tables(writes) = SubSeq(TablesFrom(1), 1, Len(writes))
    /\ (Ended /\ files # <<>>) => Len(writes) = Len(TablesFrom(1))
    /\ (pc = "crashed" /\ files # <<>>) => ~reads[Len(reads)].ok

\* C2 witness: a run that ended normally in which a write failed and was
\* followed by a write to another table, of another file.
C2_Witness ==
    /\ pc = "done"
    /\ Len(files) = 2
    /\ \E i, j \in 1..Len(writes) :
          /\ i < j
          /\ ~writes[i].ok
          /\ writes[j].table # writes[i].table
          /\ j = Len(writes)
          /\ i = 1

\* C3: when the probe fails or the directory has no recognised file, the
\* run ends with no file read and no call of the writer; a call of the
\* writer comes only after a successful probe and a non-empty list of files.
C3_FailFast ==
    /\ (probe = "failed" \/ (NoRecognizedFile /\ pc \notin {"probe", "list"}))
          => /\ writes = <<>>
             /\ reads = <<>>
             /\ pc \in {"aborted", "crashed"}
    /\ writes # <<>> => (probe = "ok" /\ files # <<>> /\ ~NoRecognizedFile)

\* C3 witness: the probe failed on a directory that holds a recognised file,
\* and the run is over.
C3_Witness == pc = "aborted" /\ probe = "failed" /\ ~NoRecognizedFile

\* C4: however the run ends, the engine has been disposed of.
C4_EngineReleased == Ended => disposed

====
